---- MODULE Spec2Model ----
(***************************************************************************)
(* EC-BU: chunked backup (ECBU.py) and restore (ECRS.py) of one local file *)
(* against a remote folder of numbered chunks.                             *)
(*                                                                         *)
(* One run is modelled: begin_backup or begin_file_restore, from its first *)
(* line to its return.  The remote store and the network are the           *)
(* environment: every transfer step may succeed, fail with an HTTP status  *)
(* or fail with a connection fault.                                        *)
(*                                                                         *)
(* Units.  Waits are counted in half seconds (0.5 s = 1).  A chunk name    *)
(* "<folder>.<i>" is modelled by its number i, a byte by 0 or 1, and the   *)
(* MD5 digest by an injective encoding of the bytes hashed.                *)
(***************************************************************************)
EXTENDS Integers, Sequences, FiniteSets, TLC

\* ------------------------------------------------------------- bounds
\* longest local file, in bytes
MaxFile == 3
\* largest value of the file_chunk_size argument
MaxChunkArg == 2
\* largest chunk number present in the remote folder before the run
MaxRemoteName == 2
\* longest content of a remote chunk present before the run
MaxRemoteLen == 2
\* failures the environment injects in one run
MaxFaults == 3
\* scale: bytes per unit of file_chunk_size (1000 * 1000 in the source)
MegaByte == 1
\* scale: bytes per unit of upload_chunk_size (1024 * 1024 in the source)
MebiByte == 1

\* largest initial_time_secs an IncreasingBackoff is constructed with
MaxInitialWait == 3
\* largest max_wait_time an IncreasingBackoff is constructed with
MaxCeiling == 4
\* largest stepping_multiplier an IncreasingBackoff is constructed with
MaxMultiplier == 3
\* wait() calls made in a row on an IncreasingBackoff
MaxCalls == 4
\* largest chunk_size a byte-range view is constructed with
MaxSubChunk == 2
\* longest command-line argument handed to parse_integer_argument
MaxArgLen == 4
\* most pages files().list splits one listing into, and most records on a page
MaxPages == 3
MaxPageLen == 2
\* failures the environment may inject into one run of few bytes
MaxStorm == 9
\* failures the environment may inject into a backup followed by a restore
MaxRoundTripFaults == 1

\* ---------------------------------------------------- program constants
\* default upload_chunk_size / download_chunk_size argument
DefaultTransferArg == 1
\* default_backoff_time = 0.5 s, and IncreasingBackoff(0.5, ...)
InitialWait == 1
\* "if backoff_time < 120" in the upload loop
UploadWaitLimit == 240
\* IncreasingBackoff(..., 10 * 60, ...)
MaxWaitTime == 1200
\* IncreasingBackoff(..., ..., 2) and "backoff_time *= 2"
SteppingMultiplier == 2
\* time.sleep(1) between two attempts of a chunk of the backup
ChunkRetryWait == 2

Byte == {0, 1}
\* None, for a file id
NoId == 0
\* None, for a page token
NoToken == 0
\* statuses the store answers a failed request with
HttpStatuses == {403, 404, 500, 502, 503, 504}
\* step outcome of a connection fault (no HTTP status)
ConnFault == -1

VARIABLES
    mode,                \* "backup" | "restore": which program runs
    folder_name,         \* dest_folder_name / backup_folder_name
    pc,                  \* position of the run
    remote,              \* the backup folder: set of [id, name, content]
    local_file,          \* bytes of the local file
    initial_file,        \* history: bytes of the local file when the run began
    initial_remote,      \* history: the backup folder when the run began
    file_size,           \* file_size as measured at the start of the run
    file_chunk_size,     \* backup: file_chunk_size after "*= 1000 * 1000"
    chunksize,           \* wire sub-chunk size in bytes
    num_chunks,          \* num_chunk_files / len(chunk_information)
    chunk_num,           \* loop counter (one-based)
    bytes_uploaded,      \* backup: running byte counter
    bytes_downloaded,    \* restore: running byte counter
    file_chunk,          \* the byte-range view: [begin_index, end_index]
    chunk_changes_cache, \* cached directory listing (<<>> when None or empty)
    file_status,         \* last ChangedFile: [changed, ident]
    request,             \* transfer in flight: [kind, ident, sent]
    backoff_time,        \* wait of the transfer loop's backoff
    retry_backoff,       \* wait of continuous_chunk_dl_retry's backoff
    last_status,         \* outcome of the last transfer step (0: success)
    faults_left,         \* failures the environment may still inject
    waits,               \* history: waits slept in the current transfer loop
    ranges,              \* history: views built by begin_backup, in order
    log,                 \* history: requests opened and chunks finished,
                         \*   in order, as [op, chunk, arg]
    backoff,             \* an IncreasingBackoff object exercised on its own
    consecutive_waits,   \* history: wait() calls on it since the last reset
    last_call,           \* history: last call on a byte-range view exercised
                         \*   on its own, as [op, args, raised, returned]
    pages,               \* the pages files().list answers a refresh exercised
                         \*   on its own with, in order
    page_token,          \* page_token of that refresh
    drive_folders,       \* names of the folders in the root of the drive
    local_file_exists    \* whether a file of the local file's name exists

vars == <<mode, folder_name, pc, remote, local_file, initial_file,
          initial_remote, file_size, file_chunk_size, chunksize, num_chunks,
          chunk_num, bytes_uploaded, bytes_downloaded, file_chunk,
          chunk_changes_cache, file_status, request, backoff_time,
          retry_backoff, last_status, faults_left, waits, ranges, log,
          backoff, consecutive_waits, last_call, pages, page_token,
          drive_folders, local_file_exists>>

\* the objects exercised on their own, which a run leaves alone
page_vars == <<pages, page_token>>
unit_vars == <<backoff, consecutive_waits, last_call, page_vars>>

\* ------------------------------------------------------------ helpers
Min(a, b) == IF a <= b THEN a ELSE b
Max(a, b) == IF a >= b THEN a ELSE b

\* (mutant) integer division in place of math.ceil
CeilAsFloor(n, d) == n \div d

\* math.ceil(file_size / file_chunk_size)
Ceil(n, d) == IF n % d = 0 THEN n \div d ELSE (n \div d) + 1

\* sequences over S of length lo..hi
SeqsOf(S, lo, hi) == UNION {[1..n -> S] : n \in lo..hi}

\* s[from+1 .. to] in zero-based half-open form: Python's s[from:to]
Slice(s, from, to) ==
    LET f == Min(Max(from, 0), Len(s))
        t == Min(Max(to, f), Len(s))
    IN  [i \in 1..(t - f) |-> s[f + i]]

\* file.seek(pos); file.read(length): a length of -1 reads to the end (a
\* smaller one raises, see GetBytesRaises)
FileRead(file, pos, length) ==
    IF length < 0 THEN Slice(file, pos, Len(file))
    ELSE Slice(file, pos, pos + length)

\* file.seek(pos); file.write(data): a hole before pos is filled with zeros
FileWrite(file, pos, data) ==
    LET n == Max(Len(file), pos + Len(data))
    IN  [i \in 1..n |->
            IF i > pos /\ i <= pos + Len(data) THEN data[i - pos]
            ELSE IF i <= Len(file) THEN file[i]
            ELSE 0]

\* ------------------------------------------------- the byte-range view
\* ECBUMediaUpload.size
Size(view) == view.end_index - view.begin_index

\* (mutant) the length is not shortened at end_index
GetBytesNoClip(file, view, begin, length) ==
    FileRead(file, begin + view.begin_index, length)

\* ECBUMediaUpload.getbytes
GetBytes(file, view, begin, length) ==
    LET read_start_index == begin + view.begin_index
        len == IF read_start_index + length > view.end_index
               THEN view.end_index - read_start_index
               ELSE length
    IN  FileRead(file, read_start_index, len)

\* ------------------------------------------------------- chunk hasher
\* hashlib.md5().hexdigest() of the bytes fed: injective on byte sequences
RECURSIVE Md5(_)
Md5(bytes) ==
    IF bytes = <<>> THEN 1
    ELSE 2 * Md5(SubSeq(bytes, 1, Len(bytes) - 1)) + bytes[Len(bytes)]

\* the bytes hash_ecbu_media_file_upload feeds to the hasher, from bytes_hashed on
RECURSIVE HashFeed(_, _, _, _)
HashFeed(file, view, sub, bytes_hashed) ==
    IF bytes_hashed < Size(view)
    THEN LET current_chunk == GetBytes(file, view, bytes_hashed, sub)
         IN  IF Len(current_chunk) = 0 THEN <<>>   \* (would not advance)
             ELSE current_chunk
                  \o HashFeed(file, view, sub, bytes_hashed + Len(current_chunk))
    ELSE <<>>

\* hash_ecbu_media_file_upload
HashView(file, view, sub) == Md5(HashFeed(file, view, sub, 0))

\* ------------------------------------------------------ the remote store
\* the name of chunk i: dest_folder_name + '.' + str(chunk_num)
ChunkName(folder, i) == <<folder, i>>

\* DriveChunks._chunk_name_to_num: the integer after the last '.'
ChunkNameToNum(name) == name[2]

\* what files().list reports of one object of the folder
Listed(obj) == [id |-> obj.id, name |-> obj.name,
                size |-> Len(obj.content), md5Checksum |-> Md5(obj.content)]

\* files().list(...) over all its pages: the folder's records in any order
Listings(store) ==
    LET recs == {Listed(o) : o \in store}
        n == Cardinality(recs)
    IN  {s \in [1..n -> recs] : {s[i] : i \in 1..n} = recs}

\* the id the store gives a new object
FreshId(store) ==
    1 + (IF store = {} THEN MaxRemoteName
         ELSE CHOOSE m \in {o.id : o \in store} : \A o \in store : o.id <= m)

\* the folder after a resumable create or update session completed
Completed(store, req, name) ==
    IF req.kind = "create"
    THEN store \cup {[id |-> FreshId(store), name |-> name, content |-> req.sent]}
    ELSE {IF o.id = req.ident THEN [o EXCEPT !.content = req.sent] ELSE o
            : o \in store}

\* folders the run may find: chunks numbered within 1..MaxRemoteName, at most
\* one per number, each with one of the given contents
RemotesOver(folder, contents) ==
    LET choice == [1..MaxRemoteName -> contents \cup {<<>>}]
    IN  {{[id |-> MaxRemoteName + 1 - i, name |-> ChunkName(folder, i),
           content |-> c[i]] : i \in {j \in 1..MaxRemoteName : c[j] # <<>>}}
            : c \in choice}

\* ... each of 1..MaxRemoteLen bytes
InitialRemotes(folder) == RemotesOver(folder, SeqsOf(Byte, 1, MaxRemoteLen))

\* ------------------------------------------------------ change detection
NoRequest == [kind |-> "none", ident |-> NoId, sent |-> <<>>]
ChangedFile(changed, ident) == [changed |-> changed, ident |-> ident]

\* ChunkChanges.check_if_chunk_exists_or_changed, after the cache is filled:
\* the first cached record of that name decides
ScanCache(cache, file, view, sub, file_chunk_name) ==
    LET hits == {i \in 1..Len(cache) : cache[i].name = file_chunk_name}
    IN  IF hits = {} THEN ChangedFile(TRUE, NoId)
        ELSE LET rec == cache[CHOOSE i \in hits : \A j \in hits : i <= j]
             IN  IF rec.md5Checksum = HashView(file, view, sub)
                 THEN ChangedFile(FALSE, NoId)
                 ELSE ChangedFile(TRUE, rec.id)

\* one entry of the history of operations
Event(op, chunk, arg) == [op |-> op, chunk |-> chunk, arg |-> arg]

\* ------------------------------------------------------------- initial
NoView == [begin_index |-> 0, end_index |-> 0]

\* ------------------------------------------------- the backoff object
\* IncreasingBackoff.__init__
IncreasingBackoff(initial_time_secs, max_wait_time, stepping_multiplier) ==
    [initial_wait_time |-> initial_time_secs,
     wait_time |-> initial_time_secs,
     max_wait_time |-> max_wait_time,
     stepping_multiplier |-> stepping_multiplier]

\* (mutant) the wait grows by addition
WaitAdds(b) ==
    IF b.wait_time < b.max_wait_time
    THEN LET wait_time_increase == b.wait_time + b.stepping_multiplier
         IN  IF wait_time_increase > b.max_wait_time
             THEN [b EXCEPT !.wait_time = b.max_wait_time]
             ELSE [b EXCEPT !.wait_time = wait_time_increase]
    ELSE b

\* (mutant) the increase is not compared with the maximum
WaitNoCeiling(b) ==
    IF b.wait_time < b.max_wait_time
    THEN [b EXCEPT !.wait_time = b.wait_time * b.stepping_multiplier]
    ELSE b

\* IncreasingBackoff.wait: the object after the sleep
Wait(b) ==
    IF b.wait_time < b.max_wait_time
    THEN LET wait_time_increase == b.wait_time * b.stepping_multiplier
         IN  IF wait_time_increase > b.max_wait_time
             THEN [b EXCEPT !.wait_time = b.max_wait_time]
             ELSE [b EXCEPT !.wait_time = wait_time_increase]
    ELSE b

\* IncreasingBackoff.reset_to_initial
ResetToInitial(b) == [b EXCEPT !.wait_time = b.initial_wait_time]

\* no call made yet on the view exercised on its own
NoCall == [op |-> "none", args |-> <<>>, raised |-> "none", returned |-> <<>>]

\* the state a run starts in, for a local file and a folder of the given sets
\* and an environment that may fail that many requests
InitWith(files, remotes, faults) ==
    /\ mode \in {"backup", "restore"}
    /\ folder_name = "F"
    /\ pc = "begin"
    /\ remote \in remotes
    /\ drive_folders \in (IF remote = {} THEN {{}, {folder_name}}
                          ELSE {{folder_name}})
    /\ local_file \in files
    /\ local_file_exists \in (IF mode = "restore" /\ local_file = <<>>
                              THEN BOOLEAN ELSE {TRUE})
    /\ initial_file = local_file
    /\ initial_remote = remote
    /\ file_size = 0
    /\ file_chunk_size \in (IF mode = "backup" THEN 1..MaxChunkArg ELSE {0})
    /\ chunksize = DefaultTransferArg * MebiByte
    /\ num_chunks = 0
    /\ chunk_num = 1
    /\ bytes_uploaded = 0
    /\ bytes_downloaded = 0
    /\ file_chunk = NoView
    /\ chunk_changes_cache = <<>>
    /\ file_status = ChangedFile(FALSE, NoId)
    /\ request = NoRequest
    /\ backoff_time = InitialWait
    /\ retry_backoff = InitialWait
    /\ last_status = 0
    /\ faults_left = faults
    /\ waits = <<>>
    /\ ranges = <<>>
    /\ log = <<>>
    /\ backoff = IncreasingBackoff(InitialWait, MaxWaitTime, SteppingMultiplier)
    /\ consecutive_waits = 0
    /\ last_call = NoCall
    /\ pages = <<>>
    /\ page_token = NoToken

InitOver(files, remotes) == InitWith(files, remotes, MaxFaults)

Init == InitOver(SeqsOf(Byte, 0, MaxFile), InitialRemotes("F"))

\* ------------------------------------------------------------- backup
\* (mutant) the folder is created whatever create_mode says
FindOrCreateAlwaysCreates(folders, dest_folder_name, create_mode) ==
    folders \cup {dest_folder_name}

\* find_or_create_backup_folder: the folders of the drive after the call; the
\* call returns an id when the folder is among them, None when it is not
FindOrCreateBackupFolder(folders, dest_folder_name, create_mode) ==
    IF dest_folder_name \notin folders /\ create_mode
    THEN folders \cup {dest_folder_name}
    ELSE folders

\* begin_backup up to its loop: the folder is found or created, the file
\* measured, the chunk count computed
BeginBackup ==
    /\ mode = "backup" /\ pc = "begin"
    /\ drive_folders' = FindOrCreateBackupFolder(drive_folders, folder_name, TRUE)
    /\ file_size' = Len(local_file)
    /\ file_chunk_size' = file_chunk_size * MegaByte
    /\ num_chunks' = Ceil(file_size', file_chunk_size')
    /\ bytes_uploaded' = 0
    /\ chunk_num' = 1
    /\ pc' = "loop"
    /\ UNCHANGED <<unit_vars, local_file_exists,
                   mode, folder_name, remote, local_file, initial_file,
                   initial_remote, chunksize, bytes_downloaded, file_chunk,
                   chunk_changes_cache, file_status, request, backoff_time,
                   retry_backoff, last_status, faults_left, waits, ranges,
                   log>>

\* the end index begin_backup gives the chunk that starts at bytes_uploaded
EndIndex(uploaded, chunk_size, size) ==
    LET end_index == uploaded + chunk_size
    IN  IF end_index >= size THEN size ELSE end_index

\* head of begin_backup's loop: build the next chunk's view, or finish
BackupLoop ==
    /\ mode = "backup" /\ pc = "loop"
    /\ IF chunk_num <= num_chunks
       THEN /\ file_chunk' =
                 [begin_index |-> bytes_uploaded,
                  end_index |-> EndIndex(bytes_uploaded, file_chunk_size, file_size)]
            /\ ranges' = Append(ranges, file_chunk')
            /\ pc' = "piece"
       ELSE /\ pc' = "success"
            /\ UNCHANGED <<file_chunk, ranges>>
    /\ waits' = <<>>
    /\ UNCHANGED <<unit_vars, drive_folders, local_file_exists,
                   mode, folder_name, remote, local_file, initial_file,
                   initial_remote, file_size, file_chunk_size, chunksize,
                   num_chunks, chunk_num, bytes_uploaded, bytes_downloaded,
                   chunk_changes_cache, file_status, request, backoff_time,
                   retry_backoff, last_status, faults_left, log>>

\* (mutant) every changed chunk is created, also one the folder holds
UploadRequestCreateOnly(status) ==
    IF status.changed THEN [kind |-> "create", ident |-> NoId, sent |-> <<>>]
    ELSE [kind |-> "none", ident |-> NoId, sent |-> <<>>]

\* (mutant) the test of file_status.changed is dropped: no id means create
UploadRequestNoChangedTest(status) ==
    IF status.ident = NoId
    THEN [kind |-> "create", ident |-> NoId, sent |-> <<>>]
    ELSE [kind |-> "update", ident |-> status.ident, sent |-> <<>>]

\* the request backup_chunked_file_piece builds from the classification
UploadRequest(status) ==
    IF status.changed /\ status.ident = NoId
    THEN [kind |-> "create", ident |-> NoId, sent |-> <<>>]
    ELSE IF status.changed /\ status.ident # NoId
    THEN [kind |-> "update", ident |-> status.ident, sent |-> <<>>]
    ELSE NoRequest

\* backup_chunked_file_piece up to its transfer loop: classify the chunk
\* (listing the folder while the cache is empty), then create, update or
\* return True
BackupPiece ==
    /\ mode = "backup" /\ pc = "piece"
    /\ \E listing \in Listings(remote) :
         LET refresh == chunk_changes_cache = <<>>
             cache == IF refresh THEN listing ELSE chunk_changes_cache
             status == ScanCache(cache, local_file, file_chunk, chunksize,
                                 ChunkName(folder_name, chunk_num))
             req == UploadRequest(status)
         IN  /\ chunk_changes_cache' = cache
             /\ file_status' = status
             /\ request' = req
             /\ pc' = IF req.kind = "none" THEN "piece_ok" ELSE "uploading"
             /\ log' = log
                   \o (IF refresh THEN <<Event("list", chunk_num, 0)>> ELSE <<>>)
                   \o <<Event("classify", chunk_num, 0)>>
                   \o <<Event(IF req.kind = "none" THEN "uptodate" ELSE req.kind,
                              chunk_num, req.ident)>>
    /\ backoff_time' = InitialWait
    /\ last_status' = 0
    /\ UNCHANGED <<unit_vars, drive_folders, local_file_exists,
                   mode, folder_name, remote, local_file, initial_file,
                   initial_remote, file_size, file_chunk_size, chunksize,
                   num_chunks, chunk_num, bytes_uploaded, bytes_downloaded,
                   file_chunk, retry_backoff, faults_left, waits, ranges>>

\* (mutant) the wait is not set back after a step that succeeded
UploadStepOkNoReset ==
    /\ mode = "backup" /\ pc = "uploading"
    /\ LET progress == Len(request.sent)
           sent == request.sent
                   \o GetBytes(local_file, file_chunk, progress, chunksize)
           complete == Len(sent) >= Size(file_chunk)
       IN  /\ request' = [request EXCEPT !.sent = sent]
           /\ remote' = IF complete
                        THEN Completed(remote, request',
                                       ChunkName(folder_name, chunk_num))
                        ELSE remote
           /\ pc' = IF complete THEN "piece_ok" ELSE "uploading"
           /\ log' = IF complete THEN Append(log, Event("done", chunk_num, 0))
                      ELSE log
    /\ backoff_time' = backoff_time
    /\ last_status' = 0
    /\ UNCHANGED <<unit_vars, drive_folders, local_file_exists,
                   mode, folder_name, local_file, initial_file,
                   initial_remote, file_size, file_chunk_size, chunksize,
                   num_chunks, chunk_num, bytes_uploaded, bytes_downloaded,
                   file_chunk, chunk_changes_cache, file_status,
                   retry_backoff, faults_left, waits, ranges>>

\* request.next_chunk() succeeds: one more wire sub-chunk is acknowledged;
\* with the last one the session completes and the object is stored
UploadStepOk ==
    /\ mode = "backup" /\ pc = "uploading"
    /\ LET progress == Len(request.sent)
           sent == request.sent
                   \o GetBytes(local_file, file_chunk, progress, chunksize)
           complete == Len(sent) >= Size(file_chunk)
       IN  /\ request' = [request EXCEPT !.sent = sent]
           /\ remote' = IF complete
                        THEN Completed(remote, request',
                                       ChunkName(folder_name, chunk_num))
                        ELSE remote
           /\ pc' = IF complete THEN "piece_ok" ELSE "uploading"
           /\ log' = IF complete THEN Append(log, Event("done", chunk_num, 0))
                      ELSE log
    /\ backoff_time' = InitialWait
    /\ last_status' = 0
    /\ UNCHANGED <<unit_vars, drive_folders, local_file_exists,
                   mode, folder_name, local_file, initial_file,
                   initial_remote, file_size, file_chunk_size, chunksize,
                   num_chunks, chunk_num, bytes_uploaded, bytes_downloaded,
                   file_chunk, chunk_changes_cache, file_status,
                   retry_backoff, faults_left, waits, ranges>>

\* the upload loop's next wait: doubled while under the limit
UploadBackoffNext(t) == IF t < UploadWaitLimit THEN t * SteppingMultiplier ELSE t

\* (mutant) 404 is handled like the statuses to retry
UploadErrorBranchRetries404(status) ==
    IF status \in {404, 500, 502, 503, 504} THEN "retry" ELSE "fatal"

\* what the upload loop does with an HttpError of this status
UploadErrorBranch(status) ==
    IF status \in {404} THEN "restart"
    ELSE IF status \in {500, 502, 503, 504} THEN "retry"
    ELSE "fatal"

\* request.next_chunk() raises HttpError.  500, 502, 503, 504: sleep, grow
\* the wait, call next_chunk again.  404 or any other status: return False
UploadStepHttpError ==
    /\ mode = "backup" /\ pc = "uploading" /\ faults_left > 0
    /\ \E status \in HttpStatuses :
         /\ last_status' = status
         /\ IF UploadErrorBranch(status) = "retry"
            THEN /\ waits' = Append(waits, backoff_time)
                 /\ backoff_time' = UploadBackoffNext(backoff_time)
                 /\ pc' = "uploading"
            ELSE /\ pc' = "piece_failed"
                 /\ UNCHANGED <<waits, backoff_time>>
    /\ faults_left' = faults_left - 1
    /\ UNCHANGED <<unit_vars, drive_folders, local_file_exists,
                   mode, folder_name, remote, local_file, initial_file,
                   initial_remote, file_size, file_chunk_size, chunksize,
                   num_chunks, chunk_num, bytes_uploaded, bytes_downloaded,
                   file_chunk, chunk_changes_cache, file_status, request,
                   retry_backoff, ranges, log>>

\* request.next_chunk() raises something that is no HttpError (the connection
\* is down): nothing in ECBU.py catches it, the run ends with the exception
UploadStepConnFault ==
    /\ mode = "backup" /\ pc = "uploading" /\ faults_left > 0
    /\ last_status' = ConnFault
    /\ faults_left' = faults_left - 1
    /\ pc' = "crashed"
    /\ UNCHANGED <<unit_vars, drive_folders, local_file_exists,
                   mode, folder_name, remote, local_file, initial_file,
                   initial_remote, file_size, file_chunk_size, chunksize,
                   num_chunks, chunk_num, bytes_uploaded, bytes_downloaded,
                   file_chunk, chunk_changes_cache, file_status, request,
                   backoff_time, retry_backoff, waits, ranges, log>>

\* (mutant) a failed chunk is given up and the loop goes on
BackupRetryGivesUp ==
    /\ mode = "backup" /\ pc = "piece_failed"
    /\ waits' = Append(waits, ChunkRetryWait)
    /\ pc' = "piece_ok"
    /\ UNCHANGED <<unit_vars, drive_folders, local_file_exists,
                   mode, folder_name, remote, local_file, initial_file,
                   initial_remote, file_size, file_chunk_size, chunksize,
                   num_chunks, chunk_num, bytes_uploaded, bytes_downloaded,
                   file_chunk, chunk_changes_cache, file_status, request,
                   backoff_time, retry_backoff, last_status, faults_left,
                   ranges, log>>

\* begin_backup, status False: sleep one second and attempt the chunk again
BackupRetry ==
    /\ mode = "backup" /\ pc = "piece_failed"
    /\ waits' = Append(waits, ChunkRetryWait)
    /\ pc' = "piece"
    /\ UNCHANGED <<unit_vars, drive_folders, local_file_exists,
                   mode, folder_name, remote, local_file, initial_file,
                   initial_remote, file_size, file_chunk_size, chunksize,
                   num_chunks, chunk_num, bytes_uploaded, bytes_downloaded,
                   file_chunk, chunk_changes_cache, file_status, request,
                   backoff_time, retry_backoff, last_status, faults_left,
                   ranges, log>>

\* begin_backup, status True: count the chunk's bytes, go on to the next
BackupAdvance ==
    /\ mode = "backup" /\ pc = "piece_ok"
    /\ bytes_uploaded' = bytes_uploaded + Size(file_chunk)
    /\ chunk_num' = chunk_num + 1
    /\ pc' = "loop"
    /\ UNCHANGED <<unit_vars, drive_folders, local_file_exists,
                   mode, folder_name, remote, local_file, initial_file,
                   initial_remote, file_size, file_chunk_size, chunksize,
                   num_chunks, bytes_downloaded, file_chunk,
                   chunk_changes_cache, file_status, request, backoff_time,
                   retry_backoff, last_status, faults_left, waits, ranges,
                   log>>

BackupNext ==
    \/ BeginBackup
    \/ BackupLoop
    \/ BackupPiece
    \/ UploadStepOk
    \/ UploadStepHttpError
    \/ UploadStepConnFault
    \/ BackupRetry
    \/ BackupAdvance

\* ------------------------------------------------------------ restore
\* (mutant) the records are kept in the order the store returned them
SortByNumKeepsOrder(s) == s

\* list.sort(key=_chunk_id_response_compare): stable, ascending by chunk number
RECURSIVE SortByNum(_)
SortByNum(s) ==
    IF s = <<>> THEN <<>>
    ELSE LET rest == SortByNum(SubSeq(s, 1, Len(s) - 1))
             x == s[Len(s)]
             k == Cardinality({i \in 1..Len(rest) :
                     ChunkNameToNum(rest[i].name) <= ChunkNameToNum(x.name)})
         IN  SubSeq(rest, 1, k) \o <<x>> \o SubSeq(rest, k + 1, Len(rest))

\* a Python list's item at a zero-based index; a negative one counts from the end
PyItem(list, idx) == IF idx >= 0 THEN list[idx + 1] ELSE list[Len(list) + idx + 1]

\* (mutant) a cached chunk of that name always counts as changed
IndexCacheNoHash(cache, file, view, sub, file_chunk_name) ==
    LET chunk_idx == ChunkNameToNum(file_chunk_name) - 1
    IN  IF chunk_idx > Len(cache) - 1 THEN ChangedFile(TRUE, NoId)
        ELSE LET chunk == PyItem(cache, chunk_idx)
             IN  IF file_chunk_name = chunk.name
                 THEN ChangedFile(TRUE, chunk.id)
                 ELSE ChangedFile(TRUE, NoId)

\* DriveChunks.check_if_chunk_exists_or_changed, after the cache is filled:
\* the record at position (chunk number - 1) decides
IndexCache(cache, file, view, sub, file_chunk_name) ==
    LET chunk_idx == ChunkNameToNum(file_chunk_name) - 1
    IN  IF chunk_idx > Len(cache) - 1 THEN ChangedFile(TRUE, NoId)
        ELSE LET chunk == PyItem(cache, chunk_idx)
             IN  IF file_chunk_name = chunk.name
                 THEN IF chunk.md5Checksum = HashView(file, view, sub)
                      THEN ChangedFile(FALSE, NoId)
                      ELSE ChangedFile(TRUE, chunk.id)
                 ELSE ChangedFile(TRUE, NoId)

\* IncreasingBackoff.wait: the wait that follows t
BackoffWait(t) ==
    IF t < MaxWaitTime
    THEN LET wait_time_increase == t * SteppingMultiplier
         IN  IF wait_time_increase > MaxWaitTime THEN MaxWaitTime
             ELSE wait_time_increase
    ELSE t

\* the chunk of chunk_information the restore loop is at
CurrentChunk == chunk_changes_cache[chunk_num]

\* (mutant) the local file is opened before the listing is looked at
RestoreOpensOnAnyListing(folder_id_found, chunk_information) == folder_id_found

\* begin_file_restore gets as far as os.open(local_file_name, O_RDWR | O_CREAT):
\* neither "if folder_id is None" nor "if not chunk_information" returned
RestoreOpens(folder_id_found, chunk_information) ==
    folder_id_found /\ chunk_information # <<>>

\* begin_file_restore up to its loop: look the folder up without creating it
\* and give up when it is not there; list it (sorted), give up on an empty
\* listing, else open the local file and measure it
BeginRestore ==
    /\ mode = "restore" /\ pc = "begin"
    /\ drive_folders' = FindOrCreateBackupFolder(drive_folders, folder_name, FALSE)
    /\ IF folder_name \notin drive_folders'
       THEN /\ pc' = "failed"
            /\ UNCHANGED <<chunk_changes_cache, log, file_size, num_chunks>>
       ELSE /\ \E listing \in Listings(remote) :
                 chunk_changes_cache' = SortByNum(listing)
            /\ log' = Append(log, Event("list", 0, 0))
            /\ IF chunk_changes_cache' = <<>>
               THEN /\ pc' = "failed"
                    /\ UNCHANGED <<file_size, num_chunks>>
               ELSE /\ pc' = "loop"
                    /\ file_size' = Len(local_file)
                    /\ num_chunks' = Len(chunk_changes_cache')
    /\ local_file_exists' =
           (local_file_exists
              \/ RestoreOpens(folder_name \in drive_folders', chunk_changes_cache'))
    /\ bytes_downloaded' = 0
    /\ chunk_num' = 1
    /\ UNCHANGED <<unit_vars,
                   mode, folder_name, remote, local_file, initial_file,
                   initial_remote, file_chunk_size, chunksize,
                   bytes_uploaded, file_chunk, file_status, request,
                   backoff_time, retry_backoff, last_status, faults_left,
                   waits, ranges>>

\* (mutant) the chunk's size is left out of the test
AlreadyDownloadedNoSize(size, chunk_size, downloaded) == size >= downloaded

\* "if file_size >= (chunk_size + bytes_downloaded)": the chunk is already there
AlreadyDownloaded(size, chunk_size, downloaded) == size >= chunk_size + downloaded

\* head of begin_file_restore's loop: finish, or take the next chunk: check
\* it when the file (as measured) already reaches its end, else download it
RestoreLoop ==
    /\ mode = "restore" /\ pc = "loop"
    /\ IF chunk_num <= num_chunks
       THEN LET chunk_size == CurrentChunk.size
            IN  IF AlreadyDownloaded(file_size, chunk_size, bytes_downloaded)
                THEN /\ file_chunk' =
                          [begin_index |-> bytes_downloaded,
                           end_index |-> bytes_downloaded + chunk_size]
                     /\ pc' = "check"
                ELSE /\ pc' = "dl_chunk"
                     /\ UNCHANGED file_chunk
       ELSE /\ pc' = "success"
            /\ UNCHANGED file_chunk
    /\ retry_backoff' = InitialWait
    /\ waits' = <<>>
    /\ UNCHANGED <<unit_vars, drive_folders, local_file_exists,
                   mode, folder_name, remote, local_file, initial_file,
                   initial_remote, file_size, file_chunk_size, chunksize,
                   num_chunks, chunk_num, bytes_uploaded, bytes_downloaded,
                   chunk_changes_cache, file_status, request, backoff_time,
                   last_status, faults_left, ranges, log>>

\* begin_file_restore, the chunk is already there: classify it, then
\* download it, give the restore up, or leave it
RestoreCheck ==
    /\ mode = "restore" /\ pc = "check"
    /\ file_status' = IndexCache(chunk_changes_cache, local_file, file_chunk,
                                 DefaultTransferArg * MebiByte,
                                 CurrentChunk.name)
    /\ pc' = IF file_status'.changed /\ file_status'.ident # NoId THEN "dl_chunk"
             ELSE IF file_status'.changed THEN "failed"
             ELSE "chunk_ok"
    /\ log' = log \o <<Event("classify", chunk_num, 0)>>
                  \o (IF pc' = "failed" THEN <<Event("abort", chunk_num, 0)>>
                      ELSE IF pc' = "chunk_ok"
                      THEN <<Event("uptodate", chunk_num, 0)>>
                      ELSE <<>>)
    /\ UNCHANGED <<unit_vars, drive_folders, local_file_exists,
                   mode, folder_name, remote, local_file, initial_file,
                   initial_remote, file_size, file_chunk_size, chunksize,
                   num_chunks, chunk_num, bytes_uploaded, bytes_downloaded,
                   file_chunk, chunk_changes_cache, request, backoff_time,
                   retry_backoff, last_status, faults_left, waits, ranges>>

\* download_chunk up to its loop: seek to bytes_downloaded, open the
\* get_media request, start a backoff
DownloadChunk ==
    /\ mode = "restore" /\ pc = "dl_chunk"
    /\ request' = [kind |-> "get_media", ident |-> CurrentChunk.id,
                   sent |-> <<>>]
    /\ backoff_time' = InitialWait
    /\ last_status' = 0
    /\ log' = Append(log, Event("get_media", chunk_num, bytes_downloaded))
    /\ pc' = "downloading"
    /\ UNCHANGED <<unit_vars, drive_folders, local_file_exists,
                   mode, folder_name, remote, local_file, initial_file,
                   initial_remote, file_size, file_chunk_size, chunksize,
                   num_chunks, chunk_num, bytes_uploaded, bytes_downloaded,
                   file_chunk, chunk_changes_cache, file_status,
                   retry_backoff, faults_left, waits, ranges>>

\* the content get_media serves for a file id
MediaOf(store, ident) == (CHOOSE o \in store : o.id = ident).content

\* chunk_downloader.next_chunk() succeeds: the next wire sub-chunk is written
\* where the last write ended; with the last one the download is completed
DownloadStepOk ==
    /\ mode = "restore" /\ pc = "downloading"
    /\ LET media == MediaOf(remote, request.ident)
           progress == Len(request.sent)
           data == Slice(media, progress, progress + chunksize)
           completed == progress + Len(data) >= Len(media)
       IN  /\ local_file' = FileWrite(local_file, bytes_downloaded + progress, data)
           /\ request' = [request EXCEPT !.sent = request.sent \o data]
           /\ pc' = IF completed THEN "chunk_ok" ELSE "downloading"
           /\ log' = IF completed THEN Append(log, Event("done", chunk_num, 0))
                     ELSE log
    /\ last_status' = 0
    /\ UNCHANGED <<unit_vars, drive_folders, local_file_exists,
                   mode, folder_name, remote, initial_file, initial_remote,
                   file_size, file_chunk_size, chunksize, num_chunks,
                   chunk_num, bytes_uploaded, bytes_downloaded, file_chunk,
                   chunk_changes_cache, file_status, backoff_time,
                   retry_backoff, faults_left, waits, ranges>>

\* (mutant) 504 is missing from the list of statuses to retry
DownloadErrorBranchNo504(status) ==
    IF status \in {500, 502, 503} THEN "retry" ELSE "fatal"

\* what the download loop does with an HttpError of this status
DownloadErrorBranch(status) ==
    IF status \in {500, 502, 503, 504} THEN "retry" ELSE "fatal"

\* chunk_downloader.next_chunk() raises HttpError.  500, 502, 503, 504:
\* backoff.wait(), call next_chunk again.  Any other status: return False
DownloadStepHttpError ==
    /\ mode = "restore" /\ pc = "downloading" /\ faults_left > 0
    /\ \E status \in HttpStatuses :
         /\ last_status' = status
         /\ IF DownloadErrorBranch(status) = "retry"
            THEN /\ waits' = Append(waits, backoff_time)
                 /\ backoff_time' = BackoffWait(backoff_time)
                 /\ pc' = "downloading"
            ELSE /\ pc' = "dl_failed"
                 /\ UNCHANGED <<waits, backoff_time>>
    /\ faults_left' = faults_left - 1
    /\ UNCHANGED <<unit_vars, drive_folders, local_file_exists,
                   mode, folder_name, remote, local_file, initial_file,
                   initial_remote, file_size, file_chunk_size, chunksize,
                   num_chunks, chunk_num, bytes_uploaded, bytes_downloaded,
                   file_chunk, chunk_changes_cache, file_status, request,
                   retry_backoff, ranges, log>>

\* chunk_downloader.next_chunk() raises something that is no HttpError (the
\* connection is down): backoff.wait(), call next_chunk again
DownloadStepConnFault ==
    /\ mode = "restore" /\ pc = "downloading" /\ faults_left > 0
    /\ last_status' = ConnFault
    /\ faults_left' = faults_left - 1
    /\ waits' = Append(waits, backoff_time)
    /\ backoff_time' = BackoffWait(backoff_time)
    /\ pc' = "downloading"
    /\ UNCHANGED <<unit_vars, drive_folders, local_file_exists,
                   mode, folder_name, remote, local_file, initial_file,
                   initial_remote, file_size, file_chunk_size, chunksize,
                   num_chunks, chunk_num, bytes_uploaded, bytes_downloaded,
                   file_chunk, chunk_changes_cache, file_status, request,
                   retry_backoff, ranges, log>>

\* continuous_chunk_dl_retry, status False: backoff.wait(), download the
\* chunk again from its start
RestoreRetry ==
    /\ mode = "restore" /\ pc = "dl_failed"
    /\ waits' = Append(waits, retry_backoff)
    /\ retry_backoff' = BackoffWait(retry_backoff)
    /\ pc' = "dl_chunk"
    /\ UNCHANGED <<unit_vars, drive_folders, local_file_exists,
                   mode, folder_name, remote, local_file, initial_file,
                   initial_remote, file_size, file_chunk_size, chunksize,
                   num_chunks, chunk_num, bytes_uploaded, bytes_downloaded,
                   file_chunk, chunk_changes_cache, file_status, request,
                   backoff_time, last_status, faults_left, ranges, log>>

\* (mutant) the bytes of a chunk left as it is are not counted
RestoreAdvanceSkipsUpToDate ==
    /\ mode = "restore" /\ pc = "chunk_ok"
    /\ bytes_downloaded' =
          IF log[Len(log)].op = "uptodate" THEN bytes_downloaded
          ELSE bytes_downloaded + chunk_changes_cache[chunk_num].size
    /\ chunk_num' = chunk_num + 1
    /\ pc' = "loop"
    /\ UNCHANGED <<unit_vars, drive_folders, local_file_exists,
                   mode, folder_name, remote, local_file, initial_file,
                   initial_remote, file_size, file_chunk_size, chunksize,
                   num_chunks, bytes_uploaded, file_chunk,
                   chunk_changes_cache, file_status, request, backoff_time,
                   retry_backoff, last_status, faults_left, waits, ranges,
                   log>>

\* begin_file_restore, end of the loop body: count the chunk's bytes
RestoreAdvance ==
    /\ mode = "restore" /\ pc = "chunk_ok"
    /\ bytes_downloaded' = bytes_downloaded + CurrentChunk.size
    /\ chunk_num' = chunk_num + 1
    /\ pc' = "loop"
    /\ UNCHANGED <<unit_vars, drive_folders, local_file_exists,
                   mode, folder_name, remote, local_file, initial_file,
                   initial_remote, file_size, file_chunk_size, chunksize,
                   num_chunks, bytes_uploaded, file_chunk,
                   chunk_changes_cache, file_status, request, backoff_time,
                   retry_backoff, last_status, faults_left, waits, ranges,
                   log>>

RestoreNext ==
    \/ BeginRestore
    \/ RestoreLoop
    \/ RestoreCheck
    \/ DownloadChunk
    \/ DownloadStepOk
    \/ DownloadStepHttpError
    \/ DownloadStepConnFault
    \/ RestoreRetry
    \/ RestoreAdvance

Next == BackupNext \/ RestoreNext

Spec == Init /\ [][Next]_vars

\* The runs the progress property is checked on: local files of zeros and
\* folders whose chunks hold a byte equal to the file's, a byte that differs,
\* or two bytes (transfers of one and of two steps).
LiveInit ==
    InitOver(SeqsOf({0}, 0, MaxFile), RemotesOver("F", {<<0>>, <<1>>, <<0, 0>>}))

\* one pass of the body of a transfer loop (while response is None)
TransferStep ==
    \/ UploadStepOk
    \/ UploadStepHttpError
    \/ UploadStepConnFault
    \/ DownloadStepOk
    \/ DownloadStepHttpError
    \/ DownloadStepConnFault

\* the run is one sequential thread: a transfer loop that has a pass to make
\* makes it
LiveSpec == LiveInit /\ [][Next]_vars /\ WF_vars(TransferStep)

\* a run over a file of one or two bytes and a folder of chunks of one byte,
\* in which up to MaxStorm requests fail
StormInit ==
    InitWith(SeqsOf({0}, 1, 2), RemotesOver("F", {<<0>>}), MaxStorm)

StormSpec == StormInit /\ [][Next]_vars

\* ECRS is started on the folder a backup has just completed, with a local
\* file name that does not exist yet: os.open(..., O_RDWR | O_CREAT) creates
\* it empty.  file_chunk_size and ranges keep what the backup left, and
\* initial_file the file that was backed up.
StartRestore ==
    /\ mode = "backup" /\ pc = "success"
    /\ mode' = "restore"
    /\ pc' = "begin"
    /\ local_file' = <<>>
    /\ local_file_exists' = FALSE
    /\ initial_remote' = remote
    /\ file_size' = 0
    /\ num_chunks' = 0
    /\ chunk_num' = 1
    /\ bytes_downloaded' = 0
    /\ file_chunk' = NoView
    /\ chunk_changes_cache' = <<>>
    /\ file_status' = ChangedFile(FALSE, NoId)
    /\ request' = NoRequest
    /\ backoff_time' = InitialWait
    /\ retry_backoff' = InitialWait
    /\ last_status' = 0
    /\ waits' = <<>>
    /\ log' = <<>>
    /\ UNCHANGED <<unit_vars, drive_folders,
                   folder_name, remote, initial_file, file_chunk_size,
                   chunksize, bytes_uploaded, faults_left, ranges>>

RoundTripInit ==
    InitWith(SeqsOf(Byte, 0, MaxFile), InitialRemotes("F"), MaxRoundTripFaults)

RoundTripNext == Next \/ StartRestore

RoundTripSpec == RoundTripInit /\ [][RoundTripNext]_vars

\* ------------------------------------- the classes exercised on their own
\* the variables of a run
run_vars == <<mode, folder_name, pc, remote, local_file, initial_file,
              initial_remote, file_size, file_chunk_size, chunksize,
              num_chunks, chunk_num, bytes_uploaded, bytes_downloaded,
              file_chunk, chunk_changes_cache, file_status, request,
              backoff_time, retry_backoff, last_status, faults_left, waits,
              ranges, log, drive_folders, local_file_exists>>

\* no run is going on: an object of class m is exercised over one of files
UnitInit(m, files) ==
    /\ mode = m
    /\ folder_name = "F"
    /\ pc = "unit"
    /\ remote = {}
    /\ drive_folders = {}
    /\ local_file \in files
    /\ local_file_exists = TRUE
    /\ initial_file = local_file
    /\ initial_remote = remote
    /\ file_size = Len(local_file)
    /\ file_chunk_size = 0
    /\ chunksize = DefaultTransferArg * MebiByte
    /\ num_chunks = 0
    /\ chunk_num = 1
    /\ bytes_uploaded = 0
    /\ bytes_downloaded = 0
    /\ file_chunk = NoView
    /\ chunk_changes_cache = <<>>
    /\ file_status = ChangedFile(FALSE, NoId)
    /\ request = NoRequest
    /\ backoff_time = InitialWait
    /\ retry_backoff = InitialWait
    /\ last_status = 0
    /\ faults_left = 0
    /\ waits = <<>>
    /\ ranges = <<>>
    /\ log = <<>>
    /\ consecutive_waits = 0
    /\ last_call = NoCall
    /\ pages = <<>>
    /\ page_token = NoToken

\* backoff = IncreasingBackoff(initial, max, multiplier), any arguments
BackoffInit ==
    /\ UnitInit("backoff", {<<>>})
    /\ \E initial_time_secs \in 0..MaxInitialWait, max_wait_time \in 0..MaxCeiling,
          stepping_multiplier \in 0..MaxMultiplier :
         backoff = IncreasingBackoff(initial_time_secs, max_wait_time,
                                     stepping_multiplier)

\* backoff.wait()
BackoffWaitCall ==
    /\ mode = "backoff" /\ consecutive_waits < MaxCalls
    /\ backoff' = Wait(backoff)
    /\ consecutive_waits' = consecutive_waits + 1
    /\ UNCHANGED <<run_vars, last_call, page_vars>>

\* backoff.reset_to_initial()
BackoffResetCall ==
    /\ mode = "backoff"
    /\ backoff' = ResetToInitial(backoff)
    /\ consecutive_waits' = 0
    /\ UNCHANGED <<run_vars, last_call, page_vars>>

BackoffNext == BackoffWaitCall \/ BackoffResetCall

BackoffSpec == BackoffInit /\ [][BackoffNext]_vars

\* the exception ECBUMediaUpload.__init__ raises for these arguments
MediaUploadRaises(size, begin_index, end_index, chunk_size) ==
    IF begin_index > size \/ end_index > size
          \/ begin_index < 0 \/ end_index < 0
    THEN "OffsetOutOfBoundsException"
    ELSE IF chunk_size < 0 THEN "InvalidChunkException"
    ELSE "none"

\* the exception getbytes raises: BufferedReader.read takes a length that is
\* non-negative or -1 and raises ValueError for any other
GetBytesRaises(view, begin, length) ==
    LET read_start_index == begin + view.begin_index
        len == IF read_start_index + length > view.end_index
               THEN view.end_index - read_start_index
               ELSE length
    IN  IF len < -1 THEN "ValueError" ELSE "none"

\* a local file whose byte at offset i is i + 1: a byte tells where it was read
ViewInit ==
    /\ UnitInit("view", {[i \in 1..n |-> i] : n \in 0..MaxFile})
    /\ backoff = IncreasingBackoff(InitialWait, MaxWaitTime, SteppingMultiplier)

\* file_chunk = ECBUMediaUpload(local_file, file_size, begin_index, end_index,
\* chunk_size): the view, or the exception and no view
NewMediaUpload ==
    /\ mode = "view" /\ last_call.op # "hashing"
    /\ \E begin_index \in -1..(MaxFile + 1), end_index \in -1..(MaxFile + 1),
          chunk_size \in -1..MaxSubChunk :
         LET raised == MediaUploadRaises(file_size, begin_index, end_index,
                                         chunk_size)
         IN  /\ last_call' = [op |-> "init",
                              args |-> <<begin_index, end_index, chunk_size>>,
                              raised |-> raised, returned |-> <<>>]
             /\ file_chunk' = IF raised = "none"
                              THEN [begin_index |-> begin_index,
                                    end_index |-> end_index]
                              ELSE NoView
             /\ chunksize' = IF raised = "none" THEN chunk_size ELSE chunksize
    /\ UNCHANGED <<drive_folders, local_file_exists, mode, folder_name, pc, remote, local_file, initial_file,
                   initial_remote, file_size, file_chunk_size, num_chunks,
                   chunk_num, bytes_uploaded, bytes_downloaded,
                   chunk_changes_cache, file_status, request, backoff_time,
                   retry_backoff, last_status, faults_left, waits, ranges,
                   log, backoff, consecutive_waits, page_vars>>

\* file_chunk.getbytes(begin, length) on a view that was constructed
GetBytesCall ==
    /\ mode = "view"
    /\ last_call.op \in {"init", "getbytes", "hashed"}
    /\ ~(last_call.op = "init" /\ last_call.raised # "none")
    /\ \E begin \in 0..(MaxFile + 1), length \in 0..(MaxFile + 1) :
         LET raised == GetBytesRaises(file_chunk, begin, length)
         IN  last_call' = [op |-> "getbytes", args |-> <<begin, length>>,
                           raised |-> raised,
                           returned |-> IF raised = "none"
                                        THEN GetBytes(local_file, file_chunk,
                                                      begin, length)
                                        ELSE <<>>]
    /\ UNCHANGED <<run_vars, backoff, consecutive_waits, page_vars>>

\* hash_ecbu_media_file_upload(file_chunk) up to its loop, on a view that was
\* constructed: returned holds the bytes fed to the hasher so far, and
\* bytes_hashed is their number
HashBegin ==
    /\ mode = "view"
    /\ last_call.op \in {"init", "getbytes", "hashed"}
    /\ ~(last_call.op = "init" /\ last_call.raised # "none")
    /\ last_call' = [op |-> "hashing", args |-> <<>>, raised |-> "none",
                     returned |-> <<>>]
    /\ UNCHANGED <<run_vars, backoff, consecutive_waits, page_vars>>

\* one test of "while bytes_hashed < file_chunk.size()": a pass of the loop
\* body, or the exit to hexdigest()
HashStep ==
    /\ mode = "view" /\ last_call.op = "hashing"
    /\ LET bytes_hashed == Len(last_call.returned)
       IN  IF bytes_hashed < Size(file_chunk)
           THEN LET current_chunk == GetBytes(local_file, file_chunk,
                                              bytes_hashed, chunksize)
                IN  last_call' = [last_call EXCEPT
                                    !.returned = last_call.returned
                                                 \o current_chunk]
           ELSE last_call' = [last_call EXCEPT !.op = "hashed"]
    /\ UNCHANGED <<run_vars, backoff, consecutive_waits, page_vars>>

ViewNext == NewMediaUpload \/ GetBytesCall \/ HashBegin \/ HashStep

ViewSpec == ViewInit /\ [][ViewNext]_vars

\* the hasher is a loop of one thread: while it has a pass to make, it makes it
ViewLiveSpec == ViewInit /\ [][ViewNext]_vars /\ WF_vars(HashStep)

\* --------------------------------------------------- argument parsing
\* characters of a command-line argument: a sign, two digits, a letter
ArgChars == {"-", "0", "1", "x"}
ArgDigits == {"0", "1"}

\* the decimal value of a string of digits
RECURSIVE DigitsValue(_)
DigitsValue(str) ==
    IF str = <<>> THEN 0
    ELSE 10 * DigitsValue(SubSeq(str, 1, Len(str) - 1))
         + (IF str[Len(str)] = "1" THEN 1 ELSE 0)

\* int(int_arg) raises ValueError: no digits, or a character that is no digit
\* after the optional sign
IntRaises(str) ==
    LET digits == IF str # <<>> /\ str[1] = "-" THEN Tail(str) ELSE str
    IN  digits = <<>> \/ \E i \in 1..Len(digits) : digits[i] \notin ArgDigits

\* int(int_arg), for a string it does not raise on
IntOf(str) ==
    IF str[1] = "-" THEN 0 - DigitsValue(Tail(str)) ELSE DigitsValue(str)

\* parse_integer_argument: <<value>>, or <<>> for None
ParseIntegerArgument(int_arg) ==
    IF int_arg = <<>> THEN <<>>
    ELSE IF IntRaises(int_arg) THEN <<>>
    ELSE LET resultant_int == IntOf(int_arg)
         IN  IF resultant_int > 1000 \/ resultant_int < 0 THEN <<>>
             ELSE <<resultant_int>>

ParseInit ==
    /\ UnitInit("parse", {<<>>})
    /\ backoff = IncreasingBackoff(InitialWait, MaxWaitTime, SteppingMultiplier)

\* main: parse_integer_argument(parsed_args.<size option>, error_str)
ParseCall ==
    /\ mode = "parse"
    /\ \E int_arg \in SeqsOf(ArgChars, 0, MaxArgLen) :
         last_call' = [op |-> "parse", args |-> <<int_arg>>,
                       raised |-> "none",
                       returned |-> ParseIntegerArgument(int_arg)]
    /\ UNCHANGED <<run_vars, backoff, consecutive_waits, page_vars>>

ParseNext == ParseCall

ParseSpec == ParseInit /\ [][ParseNext]_vars

\* ------------------------------ DriveChunks._refresh_cache on its own
\* records files().list may report: one per chunk name
PageRecords ==
    {Listed([id |-> i, name |-> ChunkName("F", i), content |-> <<0>>])
        : i \in 1..MaxRemoteName}

\* a record of an earlier listing, of a chunk the folder no longer holds
StaleRecord ==
    Listed([id |-> MaxRemoteName + 1, name |-> ChunkName("F", 1),
            content |-> <<1>>])

\* a DriveChunks object with no cache yet or with the cache of an earlier
\* listing, and a service that answers the listing in 1..MaxPages pages of
\* 0..MaxPageLen records each
PageInit ==
    /\ mode = "listing"
    /\ folder_name = "F"
    /\ pc = "unit"
    /\ remote = {}
    /\ drive_folders = {}
    /\ local_file = <<>>
    /\ local_file_exists = FALSE
    /\ initial_file = local_file
    /\ initial_remote = remote
    /\ file_size = 0
    /\ file_chunk_size = 0
    /\ chunksize = DefaultTransferArg * MebiByte
    /\ num_chunks = 0
    /\ chunk_num = 1
    /\ bytes_uploaded = 0
    /\ bytes_downloaded = 0
    /\ file_chunk = NoView
    /\ chunk_changes_cache \in {<<>>, <<StaleRecord>>}
    /\ file_status = ChangedFile(FALSE, NoId)
    /\ request = NoRequest
    /\ backoff_time = InitialWait
    /\ retry_backoff = InitialWait
    /\ last_status = 0
    /\ faults_left = 0
    /\ waits = <<>>
    /\ ranges = <<>>
    /\ log = <<>>
    /\ backoff = IncreasingBackoff(InitialWait, MaxWaitTime, SteppingMultiplier)
    /\ consecutive_waits = 0
    /\ last_call = NoCall
    /\ pages \in SeqsOf(SeqsOf(PageRecords, 0, MaxPageLen), 1, MaxPages)
    /\ page_token = NoToken

\* _refresh_cache up to its loop; last_call.args keeps the cache it found
RefreshBegin ==
    /\ mode = "listing" /\ pc = "unit"
    /\ last_call' = [op |-> "refresh", args |-> <<chunk_changes_cache>>,
                     raised |-> "none", returned |-> <<>>]
    /\ chunk_changes_cache' = <<>>
    /\ page_token' = NoToken
    /\ pc' = "paging"
    /\ UNCHANGED <<drive_folders, local_file_exists, mode, folder_name, remote, local_file, initial_file,
                   initial_remote, file_size, file_chunk_size, chunksize,
                   num_chunks, chunk_num, bytes_uploaded, bytes_downloaded,
                   file_chunk, file_status, request, backoff_time,
                   retry_backoff, last_status, faults_left, waits, ranges,
                   log, backoff, consecutive_waits, pages>>

\* what the service answers files().list(pageToken=token) with: the token of
\* a page is its position in the listing
ListResponse(token) ==
    LET idx == IF token = NoToken THEN 1 ELSE token
    IN  [files |-> pages[idx],
         nextPageToken |-> IF idx < Len(pages) THEN idx + 1 ELSE NoToken]

\* (mutant) a page replaces what was accumulated
ListPageReplaces ==
    /\ mode = "listing" /\ pc = "paging"
    /\ LET response == ListResponse(page_token)
           cache == response.files
       IN  /\ log' = Append(log, Event("list", 0, page_token))
           /\ page_token' = response.nextPageToken
           /\ IF response.nextPageToken = NoToken
              THEN /\ chunk_changes_cache' = SortByNum(cache)
                   /\ pc' = "refreshed"
              ELSE /\ chunk_changes_cache' = cache
                   /\ pc' = "paging"
    /\ UNCHANGED <<drive_folders, local_file_exists, mode, folder_name, remote, local_file, initial_file,
                   initial_remote, file_size, file_chunk_size, chunksize,
                   num_chunks, chunk_num, bytes_uploaded, bytes_downloaded,
                   file_chunk, file_status, request, backoff_time,
                   retry_backoff, last_status, faults_left, waits, ranges,
                   backoff, consecutive_waits, last_call, pages>>

\* one pass of the loop of _refresh_cache: a list query, its files appended,
\* and after the last page the sort
ListPage ==
    /\ mode = "listing" /\ pc = "paging"
    /\ LET response == ListResponse(page_token)
           cache == chunk_changes_cache \o response.files
       IN  /\ log' = Append(log, Event("list", 0, page_token))
           /\ page_token' = response.nextPageToken
           /\ IF response.nextPageToken = NoToken
              THEN /\ chunk_changes_cache' = SortByNum(cache)
                   /\ pc' = "refreshed"
              ELSE /\ chunk_changes_cache' = cache
                   /\ pc' = "paging"
    /\ UNCHANGED <<drive_folders, local_file_exists, mode, folder_name, remote, local_file, initial_file,
                   initial_remote, file_size, file_chunk_size, chunksize,
                   num_chunks, chunk_num, bytes_uploaded, bytes_downloaded,
                   file_chunk, file_status, request, backoff_time,
                   retry_backoff, last_status, faults_left, waits, ranges,
                   backoff, consecutive_waits, last_call, pages>>

PageNext == RefreshBegin \/ ListPage

PageSpec == PageInit /\ [][PageNext]_vars

\* =============================================================== claims
\* requests and outcomes of the log that belong to chunk k
EventsOf(k) == {i \in 1..Len(log) : log[i].chunk = k}
HasEvent(op, k) == \E i \in EventsOf(k) : log[i].op = op
\* the chunk the run is at has been classified
Classified == HasEvent("classify", chunk_num)
\* the name of the chunk the run is at
CurrentName ==
    IF mode = "backup" THEN ChunkName(folder_name, chunk_num)
    ELSE CurrentChunk.name
\* digest of the bytes the local file held in [from, to) when the run began
LocalDigest(from, to) == Md5(Slice(initial_file, from, to))

\* C1: the views begin_backup builds are contiguous from 0, non-empty (so
\* non-overlapping), inside the file, full-sized except the last; when the
\* backup finishes there are ceil(file_size / chunk_size) of them and they end
\* at file_size.
C1_PartitionCoversFile ==
    (mode = "backup" /\ pc # "begin") =>
        LET n == Len(ranges)
            size == Len(local_file)
        IN  /\ \A i \in 1..n :
                 /\ ranges[i].begin_index =
                        (IF i = 1 THEN 0 ELSE ranges[i - 1].end_index)
                 /\ ranges[i].begin_index < ranges[i].end_index
                 /\ ranges[i].end_index <= size
                 /\ (Size(ranges[i]) # file_chunk_size =>
                        /\ ranges[i].end_index = size
                        /\ Size(ranges[i]) < file_chunk_size)
            /\ (pc = "success" =>
                 /\ n * file_chunk_size >= size
                 /\ (n > 0 => (n - 1) * file_chunk_size < size)
                 /\ (n > 0 => ranges[n].end_index = size)
                 /\ (n = 0 => size = 0))

\* a finished backup of 3 bytes in chunks of 2: a full chunk and a truncated one
C1_Witness ==
    /\ mode = "backup" /\ pc = "success"
    /\ ranges = <<[begin_index |-> 0, end_index |-> 2],
                  [begin_index |-> 2, end_index |-> 3]>>

\* C2 (as the claim states it): after a chunk is classified, the result is
\* {changed, no id} exactly when no cached record has the chunk's name, and
\* with such a record it is "unchanged" when the record's hash equals the local
\* digest and else "changed" with that record's id.
C2_ClassifiesByName ==
    (pc # "begin" /\ Classified) =>
        LET recs == {chunk_changes_cache[i] : i \in
                       {j \in 1..Len(chunk_changes_cache) :
                          chunk_changes_cache[j].name = CurrentName}}
            digest == LocalDigest(file_chunk.begin_index, file_chunk.end_index)
        IN  /\ (file_status = ChangedFile(TRUE, NoId)) <=> (recs = {})
            /\ \A r \in recs :
                 IF r.md5Checksum = digest THEN ~file_status.changed
                 ELSE file_status = ChangedFile(TRUE, r.id)

\* the request event the log ends with, while the chunk's transfer is not done
OpenRequest == log[Len(log)]

\* C3: in a backup, once chunk i is classified and until its transfer is
\* done, the request issued is a create exactly when the folder holds no object
\* named F.i, and an update exactly when it holds one whose hash differs, then
\* addressed to that object's id; from an empty folder only creates are
\* issued, in ascending order, and a finished backup has created 1..N.
C3_CreateOrUpdate ==
    (mode = "backup" /\ pc # "begin") =>
        /\ (Classified /\ OpenRequest.op # "done") =>
             LET objs == {o \in remote : o.name = ChunkName(folder_name, chunk_num)}
                 digest == LocalDigest(file_chunk.begin_index,
                                       file_chunk.end_index)
                 differ == {o \in objs : Md5(o.content) # digest}
             IN  /\ OpenRequest.chunk = chunk_num
                 /\ (OpenRequest.op = "create") <=> (objs = {})
                 /\ (OpenRequest.op = "update") <=> (differ # {})
                 /\ (OpenRequest.op = "update" =>
                        \A o \in objs : OpenRequest.arg = o.id)
        /\ (initial_remote = {} =>
             /\ \A i \in 1..Len(log) : log[i].op \notin {"update", "uptodate"}
             /\ \A i, j \in 1..Len(log) : i < j => log[i].chunk <= log[j].chunk
             /\ (pc = "success" =>
                   \A k \in 1..num_chunks : HasEvent("create", k)))

\* a finished backup that updated one chunk and created another
C3_Witness ==
    /\ mode = "backup" /\ pc = "success"
    /\ \E i, j \in 1..Len(log) :
         /\ log[i].op = "update" /\ log[i].arg # NoId
         /\ log[j].op = "create"

\* C4: in a backup, the transfer loop runs only with a request of a chunk
\* classified as changed, and a chunk reported up to date has no create, no
\* update and no completed transfer in the log.
C4_UpToDateSendsNothing ==
    mode = "backup" =>
        /\ (pc = "uploading" =>
              /\ file_status.changed
              /\ request.kind \in {"create", "update"}
              /\ ~HasEvent("uptodate", chunk_num))
        /\ \A i, j \in 1..Len(log) :
              (log[i].op = "uptodate" /\ log[j].chunk = log[i].chunk) =>
                 log[j].op \notin {"create", "update", "done"}
        /\ (request.sent # <<>> => request.kind # "none")

\* a backup went past an up-to-date chunk and is uploading the next one
C4_Witness ==
    /\ mode = "backup" /\ pc = "uploading"
    /\ chunk_num = 2 /\ HasEvent("uptodate", 1)

\* sum of the sizes of the first n cached chunks: the offset of chunk n + 1
RECURSIVE SizesBefore(_, _)
SizesBefore(cache, n) ==
    IF n <= 0 THEN 0 ELSE SizesBefore(cache, n - 1) + cache[n].size
Offset(k) == SizesBefore(chunk_changes_cache, k - 1)
\* sum of the sizes of the first n views built
RECURSIVE RangesBefore(_)
RangesBefore(n) ==
    IF n <= 0 THEN 0 ELSE RangesBefore(n - 1) + Size(ranges[n])
\* chunk k of the directory was already in the local file when the run began
MatchesLocally(k) ==
    LET end == Offset(k) + chunk_changes_cache[k].size
    IN  /\ Len(initial_file) >= end
        /\ LocalDigest(Offset(k), end) = chunk_changes_cache[k].md5Checksum

\* C5: in a restore, a chunk whose bytes already in the local file at its
\* offset hash to the remote checksum gets no download request, and the local
\* file keeps the bytes of that range.
C5_MatchingChunkSkipped ==
    (mode = "restore" /\ pc # "begin") =>
        \A k \in 1..Len(chunk_changes_cache) :
            MatchesLocally(k) =>
                LET end == Offset(k) + chunk_changes_cache[k].size
                IN  /\ ~HasEvent("get_media", k)
                    /\ ~HasEvent("done", k)
                    /\ Slice(local_file, Offset(k), end)
                         = Slice(initial_file, Offset(k), end)

\* a finished restore that left one chunk as it was and downloaded another
C5_Witness ==
    /\ mode = "restore" /\ pc = "success"
    /\ \E k, m \in 1..Len(chunk_changes_cache) :
         /\ MatchesLocally(k) /\ HasEvent("uptodate", k)
         /\ HasEvent("done", m)
         /\ local_file # initial_file

\* C6: in a restore, a chunk that ends beyond the size the local file had at
\* the start is never classified and is downloaded before the loop goes on;
\* every download is opened at the chunk's offset; with an empty local file
\* no chunk is classified, downloads are opened in ascending chunk order and
\* a finished restore has downloaded every chunk.
C6_ShortFileDownloadsDirectly ==
    (mode = "restore" /\ pc # "begin") =>
        /\ \A k \in 1..Len(chunk_changes_cache) :
             (Len(initial_file) < Offset(k) + chunk_changes_cache[k].size) =>
                /\ ~HasEvent("classify", k)
                /\ (k < chunk_num => HasEvent("done", k))
                /\ ((k = chunk_num /\ pc \in {"downloading", "dl_failed", "chunk_ok"})
                        => HasEvent("get_media", k))
        /\ \A i \in 1..Len(log) :
             log[i].op = "get_media" => log[i].arg = Offset(log[i].chunk)
        /\ (initial_file = <<>> =>
             /\ \A i \in 1..Len(log) : log[i].op # "classify"
             /\ \A i, j \in 1..Len(log) : i < j => log[i].chunk <= log[j].chunk
             /\ (pc = "success" =>
                   \A k \in 1..num_chunks :
                      HasEvent("get_media", k) /\ HasEvent("done", k)))

\* a finished restore of two chunks into an empty local file
C6_Witness ==
    /\ mode = "restore" /\ pc = "success"
    /\ initial_file = <<>> /\ num_chunks = 2
    /\ HasEvent("get_media", 2) /\ Offset(2) > 0

\* C7: the byte counter is the sum of the sizes of the chunks before the one
\* the loop is at, in the backup (sizes of the views built) and in the restore
\* (sizes listed), whether those chunks were transferred or left; the view
\* and the download of the current chunk start at the counter.
C7_CounterIsSumOfSizes ==
    /\ (mode = "backup" /\ pc # "begin") =>
         /\ bytes_uploaded = RangesBefore(chunk_num - 1)
         /\ (pc \in {"piece", "uploading", "piece_ok", "piece_failed"} =>
               file_chunk.begin_index = bytes_uploaded)
    /\ (mode = "restore" /\ pc # "begin") =>
         /\ bytes_downloaded = Offset(chunk_num)
         /\ (pc = "check" => file_chunk.begin_index = Offset(chunk_num))

\* a restore past a chunk it left and a chunk it downloaded
C7_Witness ==
    /\ mode = "restore" /\ pc = "loop" /\ chunk_num = 3
    /\ \E k, m \in 1..2 : HasEvent("uptodate", k) /\ HasEvent("done", m)
    /\ bytes_downloaded > 2

\* C8: the log is ascending in the chunk number, holds nothing of a chunk
\* beyond the one the loop is at, and every chunk before that one -- and
\* before any chunk the log mentions -- has ended done or up to date; a
\* transfer loop runs on the request opened last, which is the current chunk's.
C8_ChunksInOrder ==
    pc # "begin" =>
        /\ \A i, j \in 1..Len(log) : i < j => log[i].chunk <= log[j].chunk
        /\ \A i \in 1..Len(log) : log[i].chunk <= chunk_num
        /\ \A k \in 1..(chunk_num - 1) :
             HasEvent("done", k) \/ HasEvent("uptodate", k)
        /\ \A i \in 1..Len(log) :
             log[i].chunk > 1 =>
                \E j \in 1..(i - 1) :
                    /\ log[j].chunk = log[i].chunk - 1
                    /\ log[j].op \in {"done", "uptodate"}
        /\ (pc \in {"uploading", "downloading"} =>
              /\ OpenRequest.chunk = chunk_num
              /\ OpenRequest.op \in {"create", "update", "get_media"})

\* a chunk was started twice (a whole-chunk restart) and the next one begun
C8_Witness ==
    /\ chunk_num = 2 /\ pc \in {"uploading", "downloading"}
    /\ \E i, j \in 1..Len(log) :
         /\ i < j /\ log[i].chunk = 1 /\ log[j].chunk = 1
         /\ log[i].op = log[j].op
         /\ log[i].op \in {"create", "update", "get_media"}

\* C9 (as the claim states it): once the restore gave up on a chunk that
\* classification reported as changed without an id, it has failed and
\* nothing follows in the log, and the cached directory differs from the
\* folder's sorted listing.
C9_AbortMeansDivergence ==
    (mode = "restore" /\ \E i \in 1..Len(log) : log[i].op = "abort") =>
        /\ pc = "failed"
        /\ log[Len(log)].op = "abort"
        /\ chunk_changes_cache \notin {SortByNum(l) : l \in Listings(remote)}

\* a transfer step just failed with a status of the transient set
TransientFailure ==
    /\ faults_left' < faults_left
    /\ last_status' \in {500, 502, 503, 504}
InTransfer == pc \in {"uploading", "downloading"}

\* C10: a transfer step that fails with 500, 502, 503 or 504 leaves the run
\* in the same transfer loop, on the same request at the same position, after
\* one more wait; and every transfer loop is left in the end, with the chunk
\* done unless a failure that is not transient ended the attempt.
C10_TransientIsRetried ==
    /\ [][TransientFailure =>
            /\ pc' = pc /\ InTransfer
            /\ request' = request /\ chunk_num' = chunk_num
            /\ local_file' = local_file /\ remote' = remote
            /\ Len(waits') = Len(waits) + 1]_vars
    /\ InTransfer ~>
            \/ (pc \in {"piece_ok", "chunk_ok"} /\ log[Len(log)].op = "done")
            \/ (pc \in {"piece_failed", "dl_failed", "crashed"}
                  /\ last_status \notin {0, 500, 502, 503, 504})

\* two transient failures in a row, the transfer still running
C10_Witness ==
    /\ InTransfer
    /\ last_status \in {500, 502, 503, 504}
    /\ Len(waits) = 2 /\ faults_left = MaxFaults - 2
    /\ request.sent # <<>>

\* a transfer step just failed with an HTTP status outside the transient set
FatalFailure ==
    /\ faults_left' < faults_left
    /\ last_status' \in HttpStatuses \ {500, 502, 503, 504}

\* C11: a transfer step that fails with an HTTP status outside 500, 502, 503,
\* 504 ends the attempt of the chunk with failure handed to the caller: no
\* wait is made, the wait time is not grown, nothing is transferred, and the
\* loop is not re-entered on that request -- what follows a failed attempt is
\* the caller's restart of the chunk.
C11_FatalAbortsAttempt ==
    /\ [][FatalFailure =>
            /\ InTransfer
            /\ pc' = (IF mode = "backup" THEN "piece_failed" ELSE "dl_failed")
            /\ waits' = waits /\ backoff_time' = backoff_time
            /\ request' = request /\ log' = log
            /\ remote' = remote /\ local_file' = local_file]_vars
    /\ [][(pc \in {"piece_failed", "dl_failed"}) =>
            /\ pc' \in {pc, "piece", "dl_chunk"}
            /\ request' = request]_vars
    /\ [](pc \in {"piece_failed", "dl_failed"} =>
            last_status \in HttpStatuses \ {500, 502, 503, 504})

\* an upload has failed with 403 after a part of the chunk had been sent
C11_Witness ==
    /\ pc = "piece_failed" /\ last_status = 403
    /\ request.sent # <<>> /\ waits = <<>>

\* C12 (as the claim states it): in a backup, a transfer step that ended in
\* a connection fault has been followed by a wait and the run is still in the
\* upload loop on the same request; the fault never ends the run.
C12_UploadFaultIsRetried ==
    mode = "backup" =>
        /\ pc # "crashed"
        /\ (last_status = ConnFault =>
              /\ pc = "uploading"
              /\ waits # <<>>
              /\ request.kind \in {"create", "update"})

\* the transfers opened for chunk k: one per attempt that reached the loop
Attempts(k) ==
    {i \in EventsOf(k) : log[i].op \in {"create", "update", "get_media"}}

\* C13 (as the claim states it): a chunk whose transfer was ended by a
\* failure is started once more at most -- no chunk has a third transfer
\* opened -- and a second failed attempt is not followed by another restart.
C13_RestartsOnceThenGivesUp ==
    /\ \A k \in 1..chunk_num : Cardinality(Attempts(k)) <= 2
    /\ (pc \in {"piece", "dl_chunk"} => Cardinality(Attempts(chunk_num)) <= 1)

\* b to the power k
RECURSIVE Pow(_, _)
Pow(b, k) == IF k = 0 THEN 1 ELSE b * Pow(b, k - 1)
\* min(initial * multiplier^k, max) for the object exercised
WaitFormula(k) ==
    Min(backoff.initial_wait_time * Pow(backoff.stepping_multiplier, k),
        backoff.max_wait_time)
\* constructed with initial <= max and a multiplier of 1 or more
SensibleBackoff ==
    /\ backoff.initial_wait_time <= backoff.max_wait_time
    /\ backoff.stepping_multiplier >= 1

\* C14 (as the claim states it): whatever the constructor arguments, after k
\* wait() calls in a row wait_time is min(initial * multiplier^k, max).
C14_WaitTimeFormulaAnyTriple ==
    mode = "backoff" => backoff.wait_time = WaitFormula(consecutive_waits)

\* C14 (amended): for an object constructed with initial <= max and a
\* multiplier >= 1, after k wait() calls in a row wait_time is
\* min(initial * multiplier^k, max); after reset_to_initial() (k = 0), and
\* for any arguments, it is initial.
C14_WaitTimeFormula ==
    mode = "backoff" =>
        /\ (SensibleBackoff =>
               backoff.wait_time = WaitFormula(consecutive_waits))
        /\ (consecutive_waits = 0 =>
               backoff.wait_time = backoff.initial_wait_time)

\* the wait that would have passed the maximum was cut to it
C14_Witness ==
    /\ mode = "backoff" /\ SensibleBackoff
    /\ consecutive_waits >= 2
    /\ backoff.wait_time = backoff.max_wait_time
    /\ backoff.initial_wait_time
         * Pow(backoff.stepping_multiplier, consecutive_waits)
           > backoff.max_wait_time
    /\ backoff.initial_wait_time
         * Pow(backoff.stepping_multiplier, consecutive_waits - 1)
           < backoff.max_wait_time

\* C15 (as the claim states it): whatever the constructor arguments and the
\* calls made, initial_wait <= wait_time <= max_wait.
C15_WaitTimeInRangeAnyTriple ==
    mode = "backoff" =>
        /\ backoff.initial_wait_time <= backoff.wait_time
        /\ backoff.wait_time <= backoff.max_wait_time

\* C15 (amended): for an object constructed with initial <= max and a
\* multiplier >= 1, initial_wait <= wait_time <= max_wait after any calls.
C15_WaitTimeInRange ==
    (mode = "backoff" /\ SensibleBackoff) =>
        /\ backoff.initial_wait_time <= backoff.wait_time
        /\ backoff.wait_time <= backoff.max_wait_time

\* after some waits the wait time lies strictly between initial and maximum
C15_Witness ==
    /\ mode = "backoff" /\ SensibleBackoff
    /\ consecutive_waits >= 1
    /\ backoff.initial_wait_time < backoff.wait_time
    /\ backoff.wait_time < backoff.max_wait_time

\* C16: in the upload loop every transient failure, and no other step, adds
\* one wait, of the current wait time, which then doubles; every step that
\* succeeds sets the wait time back to the initial one, so that the failure
\* after it waits the initial time; on the first attempt of the first chunk
\* the waits made are as many as the failures injected.
C16_UploadBackoffResets ==
    /\ [][(mode = "backup" /\ TransientFailure) =>
            /\ waits' = Append(waits, backoff_time)
            /\ backoff_time' = 2 * backoff_time]_vars
    /\ [][(mode = "backup" /\ pc = "uploading" /\ ~TransientFailure) =>
            waits' = waits]_vars
    /\ [][(mode = "backup" /\ pc = "uploading" /\ request' # request) =>
            backoff_time' = InitialWait]_vars
    /\ [](mode = "backup" /\ pc = "uploading" =>
            /\ (last_status = 0 => backoff_time = InitialWait)
            /\ (last_status # 0 =>
                  backoff_time = 2 * waits[Len(waits)])
            /\ ((chunk_num = 1 /\ Cardinality(Attempts(1)) = 1) =>
                  Len(waits) = MaxFaults - faults_left))

\* two failures in a row, a step that succeeded, a third failure: the waits
\* were initial, twice initial, initial
C16_Witness ==
    /\ mode = "backup" /\ pc = "uploading"
    /\ Cardinality(Attempts(chunk_num)) = 1
    /\ request.sent # <<>>
    /\ waits = <<InitialWait, 2 * InitialWait, InitialWait>>
    /\ backoff_time = 2 * InitialWait

\* C17 (as the claim states it): in the download loop, after a step that
\* succeeded the wait time is back at the initial one.
C17_DownloadBackoffResets ==
    (mode = "restore" /\ pc = "downloading" /\ last_status = 0) =>
        backoff_time = InitialWait

\* C18: in a restore, whatever order the store listed the folder in, the
\* cached directory holds the records of the folder, each once, ascending in
\* the number parsed from the name.
C18_CacheSortedByNumber ==
    (mode = "restore" /\ pc # "begin") =>
        /\ \A i, j \in 1..Len(chunk_changes_cache) :
              i < j => ChunkNameToNum(chunk_changes_cache[i].name)
                         <= ChunkNameToNum(chunk_changes_cache[j].name)
        /\ Len(chunk_changes_cache) = Cardinality(remote)
        /\ {chunk_changes_cache[i] : i \in 1..Len(chunk_changes_cache)}
             = {Listed(o) : o \in remote}

\* a directory of two records was refreshed (from either order of listing)
C18_Witness ==
    /\ mode = "restore" /\ pc = "loop"
    /\ Len(chunk_changes_cache) = 2
    /\ ChunkNameToNum(chunk_changes_cache[1].name)
         < ChunkNameToNum(chunk_changes_cache[2].name)
    /\ chunk_changes_cache[1].id > chunk_changes_cache[2].id

\* C19 (as the claim states it): a construction with begin_index or end_index
\* outside [0, file_size], or with begin_index > end_index, raises
\* OffsetOutOfBounds; one with in-range offsets and a negative chunk size
\* raises InvalidChunk; a view that was constructed has
\* 0 <= begin_index <= end_index <= file_size.
C19_ConstructionChecksOffsets ==
    (mode = "view" /\ last_call.op = "init") =>
        LET begin_index == last_call.args[1]
            end_index == last_call.args[2]
            chunk_size == last_call.args[3]
            outside == \/ begin_index < 0 \/ begin_index > file_size
                       \/ end_index < 0 \/ end_index > file_size
                       \/ begin_index > end_index
        IN  /\ (outside => last_call.raised = "OffsetOutOfBoundsException")
            /\ ((~outside /\ chunk_size < 0) =>
                   last_call.raised = "InvalidChunkException")
            /\ (last_call.raised = "none" =>
                   /\ 0 <= file_chunk.begin_index
                   /\ file_chunk.begin_index <= file_chunk.end_index
                   /\ file_chunk.end_index <= file_size)

\* C20 (as the claim states it): the bytes getbytes returns from a view with
\* begin_index <= end_index, for any relative offset and length, were read
\* at offsets of the file inside [begin_index, end_index).
C20_ReadStaysInWindow ==
    (/\ mode = "view" /\ last_call.op = "getbytes"
     /\ file_chunk.begin_index <= file_chunk.end_index) =>
        \A i \in 1..Len(last_call.returned) :
            /\ last_call.returned[i] > file_chunk.begin_index
            /\ last_call.returned[i] <= file_chunk.end_index

\* what check_if_chunk_exists_or_changed of the backup returns if it is run
\* now for chunk k: the cache is listed again only when it is None or empty
Redetect(k) ==
    LET cache == IF chunk_changes_cache = <<>>
                 THEN CHOOSE l \in Listings(remote) : TRUE
                 ELSE chunk_changes_cache
    IN  ScanCache(cache, local_file, ranges[k], chunksize,
                  ChunkName(folder_name, k))
\* the folder holds chunk k with the bytes the local file has in its range
StoredAsLocal(k) ==
    \E o \in remote :
        /\ o.name = ChunkName(folder_name, k)
        /\ o.content = Slice(local_file, ranges[k].begin_index,
                             ranges[k].end_index)

\* C21 (as the claim states it): in a backup, change detection run for a
\* chunk whose object in the folder holds the local bytes of its range
\* reports changed = false, also when it was this run that uploaded them.
C21_DetectionIdempotent ==
    (mode = "backup" /\ pc # "begin") =>
        \A k \in 1..Len(ranges) : StoredAsLocal(k) => ~Redetect(k).changed

\* C22 (as the claim states it): parse_integer_argument returns a value only
\* if it is in 0 < value <= 1000: a size of zero never reaches the core.
C22_ParsedSizeIsPositive ==
    (mode = "parse" /\ last_call.op = "parse" /\ last_call.returned # <<>>) =>
        /\ 0 < last_call.returned[1]
        /\ last_call.returned[1] <= 1000

\* C23 (as the claim states it): the folder is listed once in a run, at the
\* first lookup; no later lookup lists it again, also when the first
\* listing was empty.
C23_ListedOnce ==
    Cardinality({i \in 1..Len(log) : log[i].op = "list"}) <= 1

\* the view exercised has begin_index <= end_index
WellFormedView == file_chunk.begin_index <= file_chunk.end_index
Hashing == mode = "view" /\ last_call.op = "hashing"
Hashed == mode = "view" /\ last_call.op = "hashed"

\* C24 (as the claim states it): the hasher, run on any view that can be
\* constructed with begin_index <= end_index, never holds more than size()
\* bytes, leaves its loop in the end, and has fed size() bytes when it does.
C24_HasherTerminates ==
    /\ []((Hashing /\ WellFormedView) =>
            Len(last_call.returned) <= Size(file_chunk))
    /\ []((Hashed /\ WellFormedView) =>
            Len(last_call.returned) = Size(file_chunk))
    /\ ((Hashing /\ WellFormedView) ~> Hashed)

\* C25: with a sub-chunk size of 1 or more, the bytes fed to the hasher are
\* at every pass a prefix of the window file[begin_index, end_index) and,
\* when the loop is left, the window itself, each byte once and in order; the
\* digest is the digest of the window, the same for every sub-chunk size and
\* every repetition.
C25_HasherFeedsTheWindow ==
    (mode = "view" /\ chunksize >= 1) =>
        /\ (last_call.op = "hashing" =>
              last_call.returned
                = Slice(local_file, file_chunk.begin_index,
                        file_chunk.begin_index + Len(last_call.returned)))
        /\ (last_call.op = "hashed" =>
              /\ last_call.returned
                   = Slice(local_file, file_chunk.begin_index,
                           file_chunk.end_index)
              /\ \A sub \in 1..MaxSubChunk :
                   HashView(local_file, file_chunk, sub)
                     = Md5(last_call.returned))

\* a window of three bytes was hashed in passes of two bytes and one
C25_Witness ==
    /\ Hashed /\ chunksize = 2
    /\ file_chunk = [begin_index |-> 0, end_index |-> 3]
    /\ last_call.returned = <<1, 2, 3>>

RECURSIVE Flatten(_)
\* the records of a sequence of pages, in the order they were returned
Flatten(ps) == IF ps = <<>> THEN <<>> ELSE ps[1] \o Flatten(Tail(ps))
\* how often record r occurs in list s
Occurrences(r, s) == Cardinality({i \in 1..Len(s) : s[i] = r})
\* the list queries issued so far
ListQueries == {i \in 1..Len(log) : log[i].op = "list"}

\* C26: a refresh drops the cache it found and queries once per page, first
\* without a token and then with the token the store returned last; while it
\* pages the cache is the pages returned so far, in order, and afterwards it
\* holds every record of every page as often as the pages held it, and
\* nothing else.
C26_RefreshAccumulatesAllPages ==
    (mode = "listing") =>
        /\ (pc = "paging" =>
              chunk_changes_cache
                = Flatten(SubSeq(pages, 1, Cardinality(ListQueries))))
        /\ (pc \in {"paging", "refreshed"} =>
              \A i \in ListQueries :
                  log[i].arg = (IF i = 1 THEN NoToken ELSE i))
        /\ (pc = "refreshed" =>
              /\ Cardinality(ListQueries) = Len(pages)
              /\ Len(chunk_changes_cache) = Len(Flatten(pages))
              /\ \A r \in PageRecords \cup {StaleRecord} :
                    Occurrences(r, chunk_changes_cache)
                      = Occurrences(r, Flatten(pages)))

\* a refresh over a stale cache took three pages, the second of them empty,
\* and one record came on two pages
C26_Witness ==
    /\ mode = "listing" /\ pc = "refreshed"
    /\ last_call.args = <<(<<StaleRecord>>)>>
    /\ Len(pages) = 3 /\ pages[2] = <<>>
    /\ \E r \in PageRecords : Occurrences(r, chunk_changes_cache) = 2

\* C27 (as the claim states it): no wait of the upload loop is longer than
\* 120 seconds (waits are counted in half seconds).
C27_UploadWaitAtMostTwoMinutes ==
    (mode = "backup") =>
        \A i \in 1..Len(waits) : waits[i] <= UploadWaitLimit

\* the restore that runs was started on the folder of a completed backup
AfterBackup == mode = "restore" /\ file_chunk_size > 0

\* C28 (as the claim states it): when a restore into an absent file, made
\* after a backup of file X completed, returns success, the restored file is
\* X, whatever the folder held before the backup.
C28_RoundTrip ==
    (AfterBackup /\ pc = "success") => local_file = initial_file

RECURSIVE ConcatUpTo(_, _)
\* the contents of the chunks numbered 1..n of a folder, in ascending order
ConcatUpTo(store, n) ==
    IF n = 0 THEN <<>>
    ELSE LET held == {o \in store : ChunkNameToNum(o.name) = n}
         IN  ConcatUpTo(store, n - 1)
               \o (IF held = {} THEN <<>> ELSE (CHOOSE o \in held : TRUE).content)
\* the file a folder stores: all its chunks in ascending order
StoredFile(store) ==
    LET nums == {ChunkNameToNum(o.name) : o \in store} \cup {0}
    IN  ConcatUpTo(store, CHOOSE n \in nums : \A m \in nums : m <= n)

\* C29 (as the claim states it): when a restore returns success, the local
\* file is the concatenation of the folder's chunks in ascending order,
\* whatever the local file held when the restore began.
C29_RestoredFileIsTheChunks ==
    (mode = "restore" /\ pc = "success") => local_file = StoredFile(remote)

\* the entries a step adds to the log
NewEvents == {log'[i] : i \in (Len(log) + 1)..Len(log')}

\* C30: no step of a restore changes an object of the backup folder or the
\* set of folders of the drive, and the requests a restore logs are listings
\* and downloads, never a create or an update; no step of a backup changes
\* the local file.
C30_ReadOnlySides ==
    [][/\ (mode = "restore" =>
             /\ remote' = remote
             /\ drive_folders' = drive_folders
             /\ \A e \in NewEvents : e.op \notin {"create", "update"})
       /\ (mode = "backup" => local_file' = local_file)]_vars

\* a restore downloaded chunk 1 into the local file and changed it, and the
\* folder is as it was
C30_Witness ==
    /\ mode = "restore" /\ pc = "success"
    /\ HasEvent("get_media", 1) /\ HasEvent("done", 1)
    /\ local_file # initial_file
    /\ remote = initial_remote /\ remote # {}

\* the restore has no folder of that name to restore from, or one without chunks
NothingToRestore ==
    mode = "restore" /\ (folder_name \notin drive_folders \/ remote = {})

\* C31: a restore whose folder does not exist or holds no chunk goes from its
\* start to failure and nowhere else, and no step of it creates the local
\* file, changes its bytes or logs a download.
C31_NothingToRestoreFailsEarly ==
    /\ [](NothingToRestore => pc \in {"begin", "failed"})
    /\ [][NothingToRestore =>
            /\ pc' = "failed"
            /\ local_file_exists' = local_file_exists
            /\ local_file' = local_file
            /\ \A e \in NewEvents : e.op # "get_media"]_vars

\* a restore listed a folder without chunks and failed, and the local file,
\* which did not exist, still does not
C31_Witness ==
    /\ NothingToRestore /\ pc = "failed"
    /\ folder_name \in drive_folders /\ HasEvent("list", 0)
    /\ ~local_file_exists

====
